---- MODULE Spec2Model ----
(***************************************************************************)
(* The hybrid local + remote storage engine of src/services/storage.ts:    *)
(* localStorage tables, the listener registry, the fire-and-forget remote  *)
(* sends and the remote fetches that reconcile the local cache.            *)
(*                                                                         *)
(* The program is single-threaded: every action below is one run of       *)
(* JavaScript from an event (a call by the UI, or the settlement of a      *)
(* network promise) up to the next await.                                  *)
(***************************************************************************)
EXTENDS Integers, Sequences, FiniteSets, TLC

VARIABLES
    store,      \* localStorage: key -> the stored string (a token sequence), <<>> when absent
    listeners,  \* listeners[key]: the registered callbacks, in registration order
    fetches,    \* the apiFetch calls in flight, with the continuation each resumes
    sends,      \* the apiRequest calls in flight, with the continuation each resumes
    unsubs,     \* the unsubscribe closures handed out, as <<key, callback>>
    last,       \* last[<<key, cb>>]: the value the callback cb was last invoked with for key
    lastOp,     \* the run that produced this state: its inputs, its side effects in order
    now,        \* the value Date.now() last returned
    ops         \* the number of calls the UI has made

vars == <<store, listeners, fetches, sends, unsubs, last, lastOp, now, ops>>

----------------------------------------------------------------------------
(* Bounds of the model *)

\* calls made by the UI in one behaviour (see CallCost)
MaxOps == 3
\* Date.now() returns 0 to MaxTime
MaxTime == 1
\* records in one bulk import
MaxBulk == 2

----------------------------------------------------------------------------
(* Keys and constants of the program *)

KEYS ==
    [ USERS       |-> "senja_users",
      STUDENTS    |-> "senja_students",
      MATERIALS   |-> "senja_materials",
      SUBMISSIONS |-> "senja_submissions",
      SETTINGS    |-> "senja_settings",
      SESSION     |-> "senja_session_current",
      API_URL     |-> "senja_spreadsheet_api_url" ]

DEFAULT_API_URL ==
    "https://script.google.com/macros/s/AKfycbzJ2VqHuQvz1XxsmeZTsB-1AFP7qW2k7Fpmlkoah46ObMUP0zHGESTrUYDqMkvwrt3bcA/exec"

\* the key -> table pairs every loop over the tables uses, in its order
tables ==
    << [key |-> KEYS.USERS,       table |-> "users"],
       [key |-> KEYS.STUDENTS,    table |-> "students"],
       [key |-> KEYS.MATERIALS,   table |-> "materials"],
       [key |-> KEYS.SUBMISSIONS, table |-> "submissions"],
       [key |-> KEYS.SETTINGS,    table |-> "settings"] >>

ListenerKeys == {tables[i].key : i \in 1..Len(tables)}
RecordKeys == ListenerKeys \ {KEYS.SETTINGS}
AllKeys == ListenerKeys \cup {KEYS.SESSION, KEYS.API_URL}

TableOf(key) == (CHOOSE i \in 1..Len(tables) : tables[i].key = key)

tableName(key) == tables[TableOf(key)].table

keyOf(table) == tables[CHOOSE i \in 1..Len(tables) : tables[i].table = table].key

\* table.substring(0,3)
substring3(table) ==
    CASE table = "users"       -> "use"
      [] table = "students"    -> "stu"
      [] table = "materials"   -> "mat"
      [] table = "submissions" -> "sub"
      [] OTHER                 -> "set"

DEFAULT_CERT_BG == "DEFAULT_CERT_BG"
INITIAL_ADMIN == "INITIAL_ADMIN"
GLOBAL_SETTINGS == "global_settings"

----------------------------------------------------------------------------
(* Values: records, JSON values, and their serialised form *)

\* A record is its id ("" when it carries none) and its other fields, v.
Rec(id, v) == [id |-> id, v |-> v]

\* A JSON value in memory, tagged with its shape: an array of records, one
\* object, a string, or null.  "none" is no value at all.
JArr(items) == [t |-> "arr", a |-> items, s |-> ""]
JObj(r) == [t |-> "obj", a |-> <<r>>, s |-> ""]
JStr(s) == [t |-> "str", a |-> <<>>, s |-> s]
JNull == [t |-> "null", a |-> <<>>, s |-> ""]
JNone == [t |-> "none", a |-> <<>>, s |-> ""]

\* JSON.stringify of one record: the id field is written only when present
RecTokens(r) ==
    <<"{">> \o (IF r.id # "" THEN <<"id", r.id>> ELSE <<>>) \o <<"v", r.v, "}">>

RECURSIVE ItemsTokens(_)
ItemsTokens(items) ==
    IF items = <<>> THEN <<>>
    ELSE RecTokens(Head(items)) \o ItemsTokens(Tail(items))

\* JSON.stringify: the string is modelled as its sequence of tokens
Stringify(j) ==
    CASE j.t = "arr" -> <<"[">> \o ItemsTokens(j.a) \o <<"]">>
      [] j.t = "obj" -> RecTokens(j.a[1])
      [] j.t = "str" -> <<"str", j.s>>
      [] OTHER       -> <<"null">>

\* the record that starts a token sequence, and the number of tokens it takes
ParseRec(toks) ==
    IF toks[2] = "id"
    THEN [rec |-> Rec(toks[3], toks[5]), len |-> 6]
    ELSE [rec |-> Rec("", toks[3]), len |-> 4]

RECURSIVE ParseItems(_)
ParseItems(toks) ==
    IF Head(toks) = "]" THEN <<>>
    ELSE LET p == ParseRec(toks)
         IN  <<p.rec>> \o ParseItems(SubSeq(toks, p.len + 1, Len(toks)))

\* JSON.parse of a stored string
Parse(toks) ==
    CASE Head(toks) = "[" -> JArr(ParseItems(Tail(toks)))
      [] Head(toks) = "{" -> JObj(ParseRec(toks).rec)
      [] Head(toks) = "str" -> JStr(toks[2])
      [] OTHER -> JNull

\* the number of tokens of the record a token sequence starts with, 0 when
\* it starts with none
RecLen(toks) ==
    IF Len(toks) >= 6 /\ toks[1] = "{" /\ toks[2] = "id" /\ toks[4] = "v" /\ toks[6] = "}"
    THEN 6
    ELSE IF Len(toks) >= 4 /\ toks[1] = "{" /\ toks[2] = "v" /\ toks[4] = "}"
         THEN 4
         ELSE 0

RECURSIVE ItemsWellFormed(_)
ItemsWellFormed(toks) ==
    IF toks = <<>> THEN FALSE
    ELSE IF toks = <<"]">> THEN TRUE
         ELSE /\ RecLen(toks) > 0
              /\ ItemsWellFormed(SubSeq(toks, RecLen(toks) + 1, Len(toks)))

\* the string is JSON text: JSON.parse returns a value for it
WellFormed(toks) ==
    /\ toks # <<>>
    /\ CASE Head(toks) = "[" -> ItemsWellFormed(Tail(toks))
         [] Head(toks) = "{" -> RecLen(toks) = Len(toks)
         [] Head(toks) = "str" -> Len(toks) = 2
         [] OTHER -> toks = <<"null">>

\* JSON.parse(str) throws a SyntaxError, in `str ? JSON.parse(str) : []`
parseThrows(st, key) == st[key] # <<>> /\ ~WellFormed(st[key])

----------------------------------------------------------------------------
(* Side effects, in the order a run performs them *)

Ev(ev, key, cb, act, data) == [ev |-> ev, key |-> key, cb |-> cb, act |-> act, data |-> data]

SetItemEv(key, data) == Ev("setItem", key, "", "", data)
CallEv(key, cb, data) == Ev("call", key, cb, "", data)
PostEv(table, action, r) == Ev("POST", table, "", action, JObj(r))
GetEv(table) == Ev("GET", table, "", "read", JNone)
ErrorEv(table) == Ev("console.error", table, "", "", JNone)

\* the value each callback was last invoked with, after the events evs
RECURSIVE Deliver(_, _)
Deliver(lst, evs) ==
    IF evs = <<>> THEN lst
    ELSE LET e == Head(evs)
         IN  Deliver(IF e.ev = "call" THEN [lst EXCEPT ![<<e.key, e.cb>>] = e.data] ELSE lst,
                     Tail(evs))

Calls(evs) == SelectSeq(evs, LAMBDA e : e.ev = "call")

----------------------------------------------------------------------------
(* Inputs: what the UI passes in and what the network answers *)

\* Math.random().toString(36).substr(2, n)
Randoms == {"k3f", "0"}
\* callback references
Callbacks == {"cb1", "cb2"}
\* urls passed to setApiUrl
Urls == {"", "https://custom/exec"}
\* the table whose save / delete / subscribe entry points the UI calls; the
\* four record tables run the same code
CallerKeys == {KEYS.STUDENTS}
\* the records the UI saves: with an id, with the same id and other fields,
\* and without id
SaveInputs == {Rec("x1", "p1"), Rec("x1", "p2"), Rec("", "p1")}
\* the ids the UI deletes, besides those of the records in the table
DeleteInputs == {"x1"}
\* the settings the UI saves
SettingsInputs == {Rec("", "p1"), Rec("x1", "p2")}
\* the identities the UI logs in
SessionInputs == {Rec("x1", "p1"), Rec("admin-1", INITIAL_ADMIN)}

\* the rows a GET of a table may return: one row, and for students the same
\* row twice, for settings rows with the settings row last
RemoteRows(table) ==
    {<<Rec("x1", "p1")>>}
    \cup (IF table = "students" THEN {<<Rec("x1", "p1"), Rec("x1", "p1")>>} ELSE {})
    \cup (IF table = "settings" THEN {<<Rec("x1", "p1"), Rec(GLOBAL_SETTINGS, "p2")>>}
          ELSE {})

\* the outcome of one GET: the transport or res.json() fails, or a body
\* arrives: an object, a string, or an array of rows
Outcomes(table) ==
    { [t |-> "fail", a |-> <<>>, s |-> ""],
      JObj(Rec("x1", "p1")),
      JStr("error"),
      JArr(<<>>) }
    \cup {JArr(rows) : rows \in RemoteRows(table)}

\* the students handed to one bulk import: n records without ids
BulkInput(n) == [i \in 1..n |-> Rec("", IF i % 2 = 1 THEN "p1" ELSE "p2")]

----------------------------------------------------------------------------
(* The program's functions *)

getItem(st, key) == st[key]

setItem(st, key, str) == [st EXCEPT ![key] = str]

removeItem(st, key) == [st EXCEPT ![key] = <<>>]

\* the endpoint without the built-in default: localStorage.getItem(KEYS.API_URL) || ''
getApiUrl_NoDefault(st) ==
    LET s == getItem(st, KEYS.API_URL)
    IN  IF s # <<>> /\ s[1] # "" THEN s[1] ELSE ""

\* localStorage.getItem(KEYS.API_URL) || DEFAULT_API_URL
getApiUrl(st) ==
    LET s == getItem(st, KEYS.API_URL)
    IN  IF s # <<>> /\ s[1] # "" THEN s[1] ELSE DEFAULT_API_URL

hasApiUrl(st) == getApiUrl(st) # ""

\* JavaScript truthiness of a value
Truthy(j) ==
    CASE j.t \in {"null", "none", "fail"} -> FALSE
      [] j.t = "str" -> j.s # ""
      [] OTHER -> TRUE

isArray(j) == j.t = "arr"

\* x.length > 0: undefined > 0 is false
lengthPositive(j) ==
    CASE j.t = "arr" -> Len(j.a) > 0
      [] j.t = "str" -> Len(j.s) > 0
      [] OTHER -> FALSE

\* apiRequest up to its await: the POST it starts, with the code that resumes
\* after it (rest: the records a bulk import has still to send)
apiRequest(st, action, table, data, rest) ==
    LET url == getApiUrl(st)
    IN  IF url = ""
        THEN [events |-> <<>>, started |-> <<>>]
        ELSE [events |-> <<PostEv(table, action, data)>>,
              started |-> <<[action |-> action, table |-> table, data |-> data,
                             rest |-> rest, url |-> url]>>]

\* apiFetch up to its await: the GET it starts, with the continuation cont
apiFetchStart(st, table, cont) ==
    LET url == getApiUrl(st)
    IN  IF url = ""
        THEN [events |-> <<>>, started |-> <<>>]
        ELSE [events |-> <<GetEv(table)>>,
              started |-> <<[kind |-> cont.kind, key |-> cont.key, table |-> table,
                             cb |-> cont.cb, i |-> cont.i, url |-> url]>>]

\* what apiFetch returns for an outcome of the GET
apiFetch(outcome) == IF outcome.t = "fail" THEN JNull ELSE outcome

\* notify invoking also the callbacks registered for the settings
notify_AllChannels(ls, key, data) ==
    [i \in 1..Len(ls[key]) |-> CallEv(key, ls[key][i], data)]
    \o (IF key # KEYS.SETTINGS
        THEN [i \in 1..Len(ls[KEYS.SETTINGS]) |->
                 CallEv(KEYS.SETTINGS, ls[KEYS.SETTINGS][i], data)]
        ELSE <<>>)

notify(ls, key, data) ==
    IF key \in DOMAIN ls
    THEN [i \in 1..Len(ls[key]) |-> CallEv(key, ls[key][i], data)]
    ELSE <<>>

\* str ? JSON.parse(str) : []
getData(st, key) ==
    LET str == getItem(st, key)
    IN  IF str # <<>> THEN Parse(str).a ELSE <<>>

\* setData without its call of notify
setData_WriteOnly(st, ls, key, data) ==
    [store |-> setItem(st, key, Stringify(JArr(data))),
     events |-> <<SetItemEv(key, JArr(data))>>]

\* setData notifying only when the stored string changes
setData_SkipUnchanged(st, ls, key, data) ==
    [store |-> setItem(st, key, Stringify(JArr(data))),
     events |-> <<SetItemEv(key, JArr(data))>>
                \o (IF getItem(st, key) = Stringify(JArr(data)) THEN <<>>
                    ELSE notify(ls, key, JArr(data)))]

setData(st, ls, key, data) ==
    [store |-> setItem(st, key, Stringify(JArr(data))),
     events |-> <<SetItemEv(key, JArr(data))>> \o notify(ls, key, JArr(data))]

\* list.findIndex(i => i.id === id), 0-based, -1 when there is none
findIndex(list, id) ==
    IF \E i \in 1..Len(list) : list[i].id = id
    THEN (CHOOSE i \in 1..Len(list) :
              /\ list[i].id = id
              /\ \A j \in 1..(i - 1) : list[j].id # id) - 1
    ELSE -1

\* `${table.substring(0,3)}_${Date.now()}_${random}`
generatedId(table, time, rnd) == substring3(table) \o "_" \o ToString(time) \o "_" \o rnd

\* `std_${Date.now()}_${i}_${random}`
bulkId(time, i, rnd) == "std_" \o ToString(time) \o "_" \o ToString(i) \o "_" \o rnd

\* saveItem pushing the item also when its id is found
saveItemList_AlwaysPush(list, item, table, time, rnd) ==
    LET it == IF item.id # "" THEN item
              ELSE [item EXCEPT !.id = generatedId(table, time, rnd)]
    IN  [list |-> Append(list, it), item |-> it,
         action |-> IF item.id # "" /\ findIndex(list, item.id) # -1
                    THEN "update" ELSE "create"]

\* saveItem sending 'update' for every item that carries an id
saveItemList_UpdateIfHasId(list, item, table, time, rnd) ==
    IF item.id # ""
    THEN LET index == findIndex(list, item.id)
         IN  [list |-> IF index # -1 THEN [list EXCEPT ![index + 1] = item]
                       ELSE Append(list, item),
              item |-> item, action |-> "update"]
    ELSE LET it == [item EXCEPT !.id = generatedId(table, time, rnd)]
         IN  [list |-> Append(list, it), item |-> it, action |-> "create"]

\* the list, the item and the action saveItem ends with
saveItemList(list, item, table, time, rnd) ==
    IF item.id # ""
    THEN LET index == findIndex(list, item.id)
         IN  IF index # -1
             THEN [list |-> [list EXCEPT ![index + 1] = item], item |-> item,
                   action |-> "update"]
             ELSE [list |-> Append(list, item), item |-> item, action |-> "create"]
    ELSE LET it == [item EXCEPT !.id = generatedId(table, time, rnd)]
         IN  [list |-> Append(list, it), item |-> it, action |-> "create"]

\* the filter removing only the first record with the id
filterNotId_FirstOnly(list, id) ==
    LET index == findIndex(list, id)
    IN  IF index = -1 THEN list
        ELSE SubSeq(list, 1, index) \o SubSeq(list, index + 2, Len(list))

\* the filter with its test inverted: list.filter(i => i.id === id)
filterNotId_Inverted(list, id) == SelectSeq(list, LAMBDA r : r.id = id)

\* list.filter(i => i.id !== id)
filterNotId(list, id) == SelectSeq(list, LAMBDA r : r.id # id)

\* newStudents.map((s, i) => ({...s, id: ...}))
prepare(newStudents, time, rnds) ==
    [i \in 1..Len(newStudents) |->
        [newStudents[i] EXCEPT !.id = bulkId(time, i - 1, rnds[i])]]

\* the comparison with the cache inverted: currentLocal === newCloud
cloudDiffers_Inverted(cloudData, currentLocal) ==
    /\ Truthy(cloudData) /\ isArray(cloudData) /\ Len(cloudData.a) > 0
    /\ currentLocal = Stringify(cloudData)

\* the snapshot taken only while the cache holds no record
cloudDiffers_OnlyIfLocalEmpty(cloudData, currentLocal) ==
    /\ Truthy(cloudData) /\ isArray(cloudData) /\ Len(cloudData.a) > 0
    /\ currentLocal \in {<<>>, Stringify(JArr(<<>>))}

\* the condition under which a table subscription takes the remote snapshot
cloudDiffers(cloudData, currentLocal) ==
    /\ Truthy(cloudData) /\ isArray(cloudData) /\ Len(cloudData.a) > 0
    /\ currentLocal # Stringify(cloudData)

\* the condition without the test of the length
cloudNonEmpty_NoLengthCheck(cloudData) == Truthy(cloudData) /\ isArray(cloudData)

\* the condition under which syncAllFromCloud takes the remote snapshot
cloudNonEmpty(cloudData) ==
    Truthy(cloudData) /\ isArray(cloudData) /\ Len(cloudData.a) > 0

\* data.find(x => x.id === 'global_settings') || data[0]
serverSettingsOf(data) ==
    LET index == findIndex(data, GLOBAL_SETTINGS)
    IN  IF index # -1 THEN data[index + 1] ELSE data[1]

----------------------------------------------------------------------------
(* The runs *)

\* What a run was: the function (op), the localStorage key it works on and
\* the string under that key when it began (before), its arguments (cb, act,
\* item), the outcome of the network call it resumes from (resp), its side
\* effects in order (events), and the state of the promise it belongs to (ret).
Op(op, key, cb, act, item, resp, events, ret) ==
    [op |-> op, key |-> key, cb |-> cb, act |-> act, item |-> item, resp |-> resp,
     before |-> IF key \in DOMAIN store THEN store[key] ELSE <<>>,
     events |-> events, ret |-> ret]

NoRec == Rec("", "")

Init ==
    /\ store = [k \in AllKeys |-> <<>>]
    /\ listeners = [k \in ListenerKeys |-> <<>>]
    /\ fetches = <<>>
    /\ sends = <<>>
    /\ unsubs = {}
    /\ last = [p \in ListenerKeys \X Callbacks |-> JNone]
    /\ lastOp = Op("init", "", "", "", NoRec, JNone, <<>>, "")
    /\ now = 0
    /\ ops = 0

\* The effects of a run: the store it leaves, the requests it starts, its trace.
Effects(op, st, newSends, newFetches) ==
    /\ store' = st
    /\ sends' = sends \o newSends
    /\ fetches' = fetches \o newFetches
    /\ lastOp' = op
    /\ last' = Deliver(last, op.events)

\* A run that ends in its call of getData, where JSON.parse throws: nothing
\* is written or sent; an async function returns a rejected promise (ret is
\* "rejected"), a synchronous one throws (ret is "threw").
Thrown(opName, key, cb, item, ret) ==
    Effects(Op(opName, key, cb, "", item, JNone, <<>>, ret), store, <<>>, <<>>)

\* the body of saveItem(key, table, item), under the name opName
saveItemRun(opName, key, item, time, rnd) ==
    IF parseThrows(store, key)
    THEN Thrown(opName, key, "", item, "rejected")
    ELSE
    LET table == tableName(key)
        r == saveItemList(getData(store, key), item, table, time, rnd)
        w == setData(store, listeners, key, r.list)
        req == apiRequest(w.store, r.action, table, r.item, <<>>)
    IN  Effects(Op(opName, key, "", r.action, item, JNone, w.events \o req.events,
                   IF req.started = <<>> THEN "resolved" ELSE "pending"),
                w.store, req.started, <<>>)

saveItem(key, item, time, rnd) ==
    /\ ops < MaxOps
    /\ ops' = ops + 1
    /\ saveItemRun("saveItem", key, item, time, rnd)
    /\ now' = time
    /\ UNCHANGED <<listeners, unsubs>>

deleteItem(key, id) ==
    /\ ops < MaxOps
    /\ ops' = ops + 1
    /\ IF parseThrows(store, key)
       THEN Thrown("deleteItem", key, "", Rec(id, ""), "rejected")
       ELSE
       LET table == tableName(key)
           newList == filterNotId(getData(store, key), id)
           w == setData(store, listeners, key, newList)
           req == apiRequest(w.store, "delete", table, Rec(id, ""), <<>>)
       IN  Effects(Op("deleteItem", key, "", "delete", Rec(id, ""), JNone, w.events \o req.events,
                      IF req.started = <<>> THEN "resolved" ELSE "pending"),
                   w.store, req.started, <<>>)
    /\ UNCHANGED <<listeners, unsubs, now>>

initAdminUser ==
    /\ ops < MaxOps
    /\ ops' = ops + 1
    /\ IF parseThrows(store, KEYS.USERS)
       THEN Thrown("initAdminUser", KEYS.USERS, "", NoRec, "rejected")
       ELSE
       IF Len(getData(store, KEYS.USERS)) = 0
       THEN saveItemRun("initAdminUser", KEYS.USERS, Rec("admin-1", INITIAL_ADMIN), now, "")
       ELSE Effects(Op("initAdminUser", KEYS.USERS, "", "", NoRec, JNone, <<>>, "resolved"),
                    store, <<>>, <<>>)
    /\ UNCHANGED <<listeners, unsubs, now>>

bulkImportStudents(newStudents, time, rnds) ==
    /\ ops < MaxOps
    /\ ops' = ops + 1
    /\ IF parseThrows(store, KEYS.STUDENTS)
       THEN Thrown("bulkImportStudents", KEYS.STUDENTS, "", NoRec, "rejected")
       ELSE
       LET list == getData(store, KEYS.STUDENTS)
           prepared == prepare(newStudents, time, rnds)
           combined == list \o prepared
           w == setData(store, listeners, KEYS.STUDENTS, combined)
           req == IF prepared = <<>> THEN [events |-> <<>>, started |-> <<>>]
                  ELSE apiRequest(w.store, "create", "students", Head(prepared),
                                  Tail(prepared))
       IN  Effects(Op("bulkImportStudents", KEYS.STUDENTS, "", "", NoRec, JArr(prepared),
                      w.events \o req.events,
                      IF req.started = <<>> THEN "resolved" ELSE "pending"),
                   w.store, req.started, <<>>)
    /\ now' = time
    /\ UNCHANGED <<listeners, unsubs>>

\* createSubscriber without the initial local load
createSubscriber_NoLocalLoad(key, callback) ==
    /\ ops < MaxOps
    /\ ops' = ops + 1
    /\ listeners' = [listeners EXCEPT ![key] = Append(@, callback)]
    /\ unsubs' = unsubs \cup {<<key, callback>>}
    /\ LET get == apiFetchStart(store, tableName(key),
                                [kind |-> "sub", key |-> key, cb |-> callback, i |-> 0])
       IN  Effects(Op("subscribe", key, callback, "", NoRec, JNone, get.events, "returned"),
                   store, <<>>, get.started)
    /\ UNCHANGED now

\* createSubscriber(key, tableName)(callback)
createSubscriber(key, callback) ==
    /\ ops < MaxOps
    /\ ops' = ops + 1
    /\ listeners' = [listeners EXCEPT ![key] = Append(@, callback)]
    \* no closure is returned when getData throws
    /\ unsubs' = IF parseThrows(store, key) THEN unsubs ELSE unsubs \cup {<<key, callback>>}
    /\ IF parseThrows(store, key)
       THEN Thrown("subscribe", key, callback, NoRec, "threw")
       ELSE
       LET first == CallEv(key, callback, JArr(getData(store, key)))
           get == IF getApiUrl(store) # ""
                  THEN apiFetchStart(store, tableName(key),
                                     [kind |-> "sub", key |-> key, cb |-> callback, i |-> 0])
                  ELSE [events |-> <<>>, started |-> <<>>]
       IN  Effects(Op("subscribe", key, callback, "", NoRec, JNone,
                      <<first>> \o get.events, "returned"),
                   store, <<>>, get.started)
    /\ UNCHANGED now

subscribeSettings(cb) ==
    /\ ops < MaxOps
    /\ ops' = ops + 1
    /\ listeners' = [listeners EXCEPT ![KEYS.SETTINGS] = Append(@, cb)]
    /\ unsubs' = unsubs \cup {<<KEYS.SETTINGS, cb>>}
    /\ LET saved == getItem(store, KEYS.SETTINGS)
           parsed == IF saved # <<>> THEN Parse(saved) ELSE JObj(Rec("", DEFAULT_CERT_BG))
           get == IF getApiUrl(store) # ""
                  THEN apiFetchStart(store, "settings",
                                     [kind |-> "settings", key |-> KEYS.SETTINGS,
                                      cb |-> cb, i |-> 0])
                  ELSE [events |-> <<>>, started |-> <<>>]
       IN  Effects(Op("subscribe", KEYS.SETTINGS, cb, "", NoRec, JNone,
                      <<CallEv(KEYS.SETTINGS, cb, parsed)>> \o get.events, "returned"),
                   store, <<>>, get.started)
    /\ UNCHANGED now

\* the closure a subscribe call returned
unsubscribe(key, callback) ==
    /\ ops < MaxOps
    /\ ops' = ops + 1
    /\ <<key, callback>> \in unsubs
    /\ listeners' = [listeners EXCEPT ![key] = SelectSeq(@, LAMBDA cb : cb # callback)]
    /\ Effects(Op("unsubscribe", key, callback, "", NoRec, JNone, <<>>, "returned"),
               store, <<>>, <<>>)
    /\ UNCHANGED <<unsubs, now>>

\* the payload with the id of the caller kept
settingsPayload_KeepId(settings) == settings

\* { ...settings, id: 'global_settings' }
settingsPayload(settings) == [settings EXCEPT !.id = GLOBAL_SETTINGS]

saveSettings(settings) ==
    /\ ops < MaxOps
    /\ ops' = ops + 1
    /\ LET payload == settingsPayload(settings)
           st == setItem(store, KEYS.SETTINGS, Stringify(JObj(payload)))
           req == apiRequest(st, "update", "settings", payload, <<>>)
       IN  Effects(Op("saveSettings", KEYS.SETTINGS, "", "", settings, JNone,
                      <<SetItemEv(KEYS.SETTINGS, JObj(payload))>>
                          \o notify(listeners, KEYS.SETTINGS, JObj(payload)) \o req.events,
                      IF req.started = <<>> THEN "resolved" ELSE "pending"),
                   st, req.started, <<>>)
    /\ UNCHANGED <<listeners, unsubs, now>>

\* What a call of setApiUrl counts for in the bound on the calls: a call that
\* starts the sync of the five tables counts twice.
CallCost(url) == IF url # "" THEN 2 ELSE 1

\* syncAllFromCloud from its i-th table on, up to its next await
syncFrom(st, i) ==
    IF i > Len(tables) THEN [events |-> <<>>, started |-> <<>>]
    ELSE apiFetchStart(st, tables[i].table,
                       [kind |-> "sync", key |-> tables[i].key, cb |-> "", i |-> i])

setApiUrl(url) ==
    /\ ops + CallCost(url) <= MaxOps
    /\ ops' = ops + CallCost(url)
    /\ LET st == setItem(store, KEYS.API_URL, <<url>>)
           sync == IF url # "" THEN syncFrom(st, 1) ELSE [events |-> <<>>, started |-> <<>>]
       IN  Effects(Op("setApiUrl", KEYS.API_URL, "", "", NoRec, JStr(url),
                      <<SetItemEv(KEYS.API_URL, JStr(url))>> \o sync.events, "returned"),
                   st, <<>>, sync.started)
    /\ UNCHANGED <<listeners, unsubs, now>>

getSession ==
    /\ ops < MaxOps
    /\ ops' = ops + 1
    /\ LET data == getItem(store, KEYS.SESSION)
       IN  Effects(Op("getSession", KEYS.SESSION, "", "", NoRec,
                      IF data # <<>> THEN Parse(data) ELSE JNull, <<>>, "returned"),
                   store, <<>>, <<>>)
    /\ UNCHANGED <<listeners, unsubs, now>>

setSession(user) ==
    /\ ops < MaxOps
    /\ ops' = ops + 1
    /\ Effects(Op("setSession", KEYS.SESSION, "", "", user, JNone,
                  <<SetItemEv(KEYS.SESSION, JObj(user))>>, "returned"),
               setItem(store, KEYS.SESSION, Stringify(JObj(user))), <<>>, <<>>)
    /\ UNCHANGED <<listeners, unsubs, now>>

\* clearSession emptying the whole localStorage: localStorage.clear()
clearSession_ClearAll ==
    /\ ops < MaxOps
    /\ ops' = ops + 1
    /\ Effects(Op("clearSession", KEYS.SESSION, "", "", NoRec, JNone,
                  <<Ev("removeItem", KEYS.SESSION, "", "", JNone)>>, "returned"),
               [k \in AllKeys |-> <<>>], <<>>, <<>>)
    /\ UNCHANGED <<listeners, unsubs, now>>

clearSession ==
    /\ ops < MaxOps
    /\ ops' = ops + 1
    /\ Effects(Op("clearSession", KEYS.SESSION, "", "", NoRec, JNone,
                  <<Ev("removeItem", KEYS.SESSION, "", "", JNone)>>, "returned"),
               removeItem(store, KEYS.SESSION), <<>>, <<>>)
    /\ UNCHANGED <<listeners, unsubs, now>>

Without(q, n) == SubSeq(q, 1, n - 1) \o SubSeq(q, n + 1, Len(q))

failureLog(outcome, table) == IF outcome.t = "fail" THEN <<ErrorEv(table)>> ELSE <<>>

\* the .then of the apiFetch a table subscription started
createSubscriberThen(n, outcome) ==
    /\ n \in 1..Len(fetches)
    /\ fetches[n].kind = "sub"
    /\ LET f == fetches[n]
           cloudData == apiFetch(outcome)
           take == cloudDiffers(cloudData, getItem(store, f.key))
       IN  /\ store' = IF take THEN setItem(store, f.key, Stringify(cloudData)) ELSE store
           /\ lastOp' = Op("createSubscriber.then", f.key, f.cb, "", NoRec, outcome,
                           failureLog(outcome, f.table)
                               \o (IF take THEN <<SetItemEv(f.key, cloudData),
                                                  CallEv(f.key, f.cb, cloudData)>>
                                   ELSE <<>>),
                           "resolved")
    /\ last' = Deliver(last, lastOp'.events)
    /\ fetches' = Without(fetches, n)
    /\ UNCHANGED <<listeners, sends, unsubs, now, ops>>

\* the .then of the apiFetch subscribeSettings started
subscribeSettingsThen(n, outcome) ==
    /\ n \in 1..Len(fetches)
    /\ fetches[n].kind = "settings"
    /\ LET f == fetches[n]
           data == apiFetch(outcome)
           enter == Truthy(data) /\ lengthPositive(data)
           \* data.find is not a function: the handler throws
           throws == enter /\ ~isArray(data)
           take == enter /\ isArray(data)
           serverSettings == JObj(serverSettingsOf(data.a))
       IN  /\ store' = IF take
                       THEN setItem(store, KEYS.SETTINGS, Stringify(serverSettings))
                       ELSE store
           /\ lastOp' = Op("subscribeSettings.then", f.key, f.cb, "", NoRec, outcome,
                           failureLog(outcome, f.table)
                               \o (IF take THEN <<SetItemEv(KEYS.SETTINGS, serverSettings),
                                                  CallEv(KEYS.SETTINGS, f.cb, serverSettings)>>
                                   ELSE <<>>),
                           IF throws THEN "rejected" ELSE "resolved")
    /\ last' = Deliver(last, lastOp'.events)
    /\ fetches' = Without(fetches, n)
    /\ UNCHANGED <<listeners, sends, unsubs, now, ops>>

\* one turn of the loop of syncAllFromCloud: the awaited apiFetch returns
syncAllFromCloud(n, outcome) ==
    /\ n \in 1..Len(fetches)
    /\ fetches[n].kind = "sync"
    /\ LET f == fetches[n]
           cloudData == apiFetch(outcome)
           take == cloudNonEmpty(cloudData)
           st == IF take THEN setItem(store, f.key, Stringify(cloudData)) ELSE store
           next == syncFrom(st, f.i + 1)
       IN  /\ store' = st
           /\ lastOp' = Op("syncAllFromCloud", f.key, "", "", NoRec, outcome,
                           failureLog(outcome, f.table)
                               \o (IF take THEN <<SetItemEv(f.key, cloudData)>>
                                                    \o notify(listeners, f.key, cloudData)
                                   ELSE <<>>)
                               \o next.events,
                           IF next.started = <<>> THEN "resolved" ELSE "pending")
           /\ fetches' = Without(fetches, n) \o next.started
    /\ last' = Deliver(last, lastOp'.events)
    /\ UNCHANGED <<listeners, sends, unsubs, now, ops>>

\* apiRequest without its try / catch: a failed POST rejects the operation,
\* and a bulk import stops
apiRequestSettles_NoCatch(n, ok) ==
    /\ n \in 1..Len(sends)
    /\ LET s == sends[n]
           next == IF s.rest = <<>> \/ ~ok THEN [events |-> <<>>, started |-> <<>>]
                   ELSE apiRequest(store, "create", s.table, Head(s.rest), Tail(s.rest))
       IN  /\ sends' = Without(sends, n) \o next.started
           /\ lastOp' = Op("apiRequest.settled", keyOf(s.table), "", s.action, s.data,
                           IF ok THEN JNone ELSE [t |-> "fail", a |-> <<>>, s |-> ""],
                           next.events,
                           IF ~ok THEN "rejected"
                           ELSE IF next.started = <<>> THEN "resolved" ELSE "pending")
    /\ UNCHANGED <<store, listeners, fetches, unsubs, last, now, ops>>

\* the settlement after which the loop of a bulk import sends nothing more
apiRequestSettles_DropsRest(n, ok) ==
    /\ n \in 1..Len(sends)
    /\ LET s == sends[n]
       IN  /\ sends' = Without(sends, n)
           /\ lastOp' = Op("apiRequest.settled", keyOf(s.table), "", s.action, s.data,
                           IF ok THEN JNone ELSE [t |-> "fail", a |-> <<>>, s |-> ""],
                           IF ok THEN <<>> ELSE <<ErrorEv(s.table)>>, "resolved")
    /\ UNCHANGED <<store, listeners, fetches, unsubs, last, now, ops>>

\* the settlement that sends a failed command again
apiRequestSettles_Retry(n, ok) ==
    /\ n \in 1..Len(sends)
    /\ LET s == sends[n]
           next == IF ~ok THEN apiRequest(store, s.action, s.table, s.data, s.rest)
                   ELSE IF s.rest = <<>> THEN [events |-> <<>>, started |-> <<>>]
                   ELSE apiRequest(store, "create", s.table, Head(s.rest), Tail(s.rest))
       IN  /\ sends' = Without(sends, n) \o next.started
           /\ lastOp' = Op("apiRequest.settled", keyOf(s.table), "", s.action, s.data,
                           IF ok THEN JNone ELSE [t |-> "fail", a |-> <<>>, s |-> ""],
                           (IF ok THEN <<>> ELSE <<ErrorEv(s.table)>>) \o next.events,
                           IF next.started = <<>> THEN "resolved" ELSE "pending")
    /\ UNCHANGED <<store, listeners, fetches, unsubs, last, now, ops>>

\* the awaited POST of an apiRequest settles: fetch resolved (ok) or threw
apiRequestSettles(n, ok) ==
    /\ n \in 1..Len(sends)
    /\ LET s == sends[n]
           next == IF s.rest = <<>> THEN [events |-> <<>>, started |-> <<>>]
                   ELSE apiRequest(store, "create", s.table, Head(s.rest), Tail(s.rest))
       IN  /\ sends' = Without(sends, n) \o next.started
           /\ lastOp' = Op("apiRequest.settled", keyOf(s.table), "", s.action, s.data,
                           IF ok THEN JNone ELSE [t |-> "fail", a |-> <<>>, s |-> ""],
                           (IF ok THEN <<>> ELSE <<ErrorEv(s.table)>>) \o next.events,
                           IF next.started = <<>> THEN "resolved" ELSE "pending")
    /\ UNCHANGED <<store, listeners, fetches, unsubs, last, now, ops>>

\* The times Date.now() may return next: the clock does not run backwards.
Times == now..MaxTime

Next ==
    \/ \E key \in CallerKeys, item \in SaveInputs :
           IF item.id = ""
           THEN \E time \in Times, rnd \in Randoms : saveItem(key, item, time, rnd)
           ELSE saveItem(key, item, now, "")
    \/ \E key \in CallerKeys, id \in DeleteInputs : deleteItem(key, id)
    \/ \E key \in CallerKeys : \E i \in 1..Len(getData(store, key)) :
           deleteItem(key, getData(store, key)[i].id)
    \/ initAdminUser
    \/ \E n \in 0..MaxBulk : \E time \in Times, rnds \in [1..n -> Randoms] :
           bulkImportStudents(BulkInput(n), time, rnds)
    \/ \E key \in CallerKeys, cb \in Callbacks : createSubscriber(key, cb)
    \/ \E cb \in Callbacks : subscribeSettings(cb)
    \/ \E c \in unsubs : unsubscribe(c[1], c[2])
    \/ \E settings \in SettingsInputs : saveSettings(settings)
    \/ \E url \in Urls : setApiUrl(url)
    \/ getSession
    \/ \E user \in SessionInputs : setSession(user)
    \/ clearSession
    \/ \E n \in 1..Len(fetches) : \E outcome \in Outcomes(fetches[n].table) :
           createSubscriberThen(n, outcome)
    \/ \E n \in 1..Len(fetches) : \E outcome \in Outcomes(fetches[n].table) :
           subscribeSettingsThen(n, outcome)
    \/ \E n \in 1..Len(fetches) : \E outcome \in Outcomes(fetches[n].table) :
           syncAllFromCloud(n, outcome)
    \/ \E n \in 1..Len(sends), ok \in BOOLEAN : apiRequestSettles(n, ok)

Spec == Init /\ [][Next]_vars

----------------------------------------------------------------------------
(* The callers of getData over a localStorage that already holds strings *)

\* What a table key may hold when the program starts: nothing, the text of
\* an array, or text JSON.parse rejects (cut short, or not JSON at all).
StoredStrings ==
    { <<>>,
      Stringify(JArr(<<>>)),
      Stringify(JArr(<<Rec("x1", "p1")>>)),
      <<"[", "{", "id", "x1">>,
      <<"<html>">> }

InitStored ==
    /\ store \in {[[k \in AllKeys |-> <<>>] EXCEPT ![KEYS.USERS] = u, ![KEYS.STUDENTS] = t] :
                      u \in StoredStrings, t \in StoredStrings}
    /\ listeners = [k \in ListenerKeys |-> <<>>]
    /\ fetches = <<>>
    /\ sends = <<>>
    /\ unsubs = {}
    /\ last = [p \in ListenerKeys \X Callbacks |-> JNone]
    /\ lastOp = Op("init", "", "", "", NoRec, JNone, <<>>, "")
    /\ now = 0
    /\ ops = 0

NextStored ==
    \/ \E key \in CallerKeys, item \in SaveInputs :
           IF item.id = ""
           THEN \E time \in Times, rnd \in Randoms : saveItem(key, item, time, rnd)
           ELSE saveItem(key, item, now, "")
    \/ \E key \in CallerKeys, id \in DeleteInputs : deleteItem(key, id)
    \/ initAdminUser
    \/ \E n \in 0..MaxBulk : \E time \in Times, rnds \in [1..n -> Randoms] :
           bulkImportStudents(BulkInput(n), time, rnds)
    \/ \E key \in CallerKeys, cb \in Callbacks : createSubscriber(key, cb)

SpecStored == InitStored /\ [][NextStored]_vars

----------------------------------------------------------------------------
(* Vocabulary of the properties *)

\* the list a run found under its key when it began
BeforeList == IF lastOp.before = <<>> THEN <<>> ELSE Parse(lastOp.before).a

\* the list under the key of the last run now
AfterList == getData(store, lastOp.key)

IdsOf(list) == {list[i].id : i \in 1..Len(list)}

UniqueIds(list) == \A i, j \in 1..Len(list) : i # j => list[i].id # list[j].id

\* the first position of id in list
FirstAt(list, id) == CHOOSE i \in 1..Len(list) :
    list[i].id = id /\ \A j \in 1..(i - 1) : list[j].id # id

\* what a synchronous read of a key gives: the table, or for the settings
\* the stored settings or the default ones
LocalSnapshot(key) ==
    IF key = KEYS.SETTINGS
    THEN (IF store[key] # <<>> THEN Parse(store[key]) ELSE JObj(Rec("", DEFAULT_CERT_BG)))
    ELSE JArr(getData(store, key))

Writes(evs) == SelectSeq(evs, LAMBDA e : e.ev \in {"setItem", "removeItem"})

----------------------------------------------------------------------------
(* C1: a save whose id is already in the table replaces the first record
   with that id at its index; the length of the table and every other
   record stay as they were. *)
C1_SaveExistingReplacesInPlace ==
    (/\ lastOp.op = "saveItem"
     /\ lastOp.item.id # ""
     /\ lastOp.item.id \in IdsOf(BeforeList))
    => LET k == FirstAt(BeforeList, lastOp.item.id)
       IN  /\ Len(AfterList) = Len(BeforeList)
           /\ AfterList[k] = lastOp.item
           /\ \A j \in 1..Len(BeforeList) : j # k => AfterList[j] = BeforeList[j]

\* a save replaced the first of two records, changing its fields
C1_Witness ==
    /\ lastOp.op = "saveItem"
    /\ Len(BeforeList) = 2
    /\ BeforeList[1].id = lastOp.item.id
    /\ BeforeList[1] # lastOp.item
    /\ AfterList[1] = lastOp.item

(* C2: save, delete and bulk import keep the ids of a table pairwise
   distinct: a table whose ids are distinct before such a call has distinct
   ids after it. *)
C2_IdsStayUnique ==
    (/\ lastOp.op \in {"saveItem", "deleteItem", "bulkImportStudents", "initAdminUser"}
     /\ UniqueIds(BeforeList))
    => UniqueIds(AfterList)

(* C3 as claimed: a delete of an id that is in the table removes exactly
   one record. *)
C3_DeleteRemovesExactlyOne ==
    (lastOp.op = "deleteItem" /\ lastOp.item.id \in IdsOf(BeforeList))
    => Len(AfterList) = Len(BeforeList) - 1

(* C3 as amended: delete removes every record with that id and keeps the
   others in their order; when no record has the id the table is as it was;
   no record with the id is left, so a second delete changes nothing; the
   promise is never rejected. *)
C3_DeleteRemovesAllWithId ==
    lastOp.op = "deleteItem"
    => LET id == lastOp.item.id
           keep == {i \in 1..Len(BeforeList) : BeforeList[i].id # id}
       IN  /\ Len(AfterList) = Cardinality(keep)
           /\ \A i \in keep : AfterList[Cardinality({j \in keep : j <= i})] = BeforeList[i]
           /\ (id \notin IdsOf(BeforeList) => AfterList = BeforeList)
           /\ id \notin IdsOf(AfterList)
           /\ lastOp.ret # "rejected"

\* a delete removed a record and kept another one
C3_Witness ==
    /\ lastOp.op = "deleteItem"
    /\ lastOp.item.id \in IdsOf(BeforeList)
    /\ Len(AfterList) >= 1
    /\ Len(AfterList) < Len(BeforeList)

(* C4: subscribe invokes the callback once, first of all, with what the
   local store holds; the remote fetch is started after that and is still in
   flight when subscribe returns. *)
C4_SubscribeReplaysLocalFirst ==
    lastOp.op = "subscribe"
    => /\ store[lastOp.key] = lastOp.before
       /\ Len(lastOp.events) >= 1
       /\ lastOp.events[1] = CallEv(lastOp.key, lastOp.cb, LocalSnapshot(lastOp.key))
       /\ \A i \in 2..Len(lastOp.events) : lastOp.events[i].ev = "GET"
       /\ last[<<lastOp.key, lastOp.cb>>] = LocalSnapshot(lastOp.key)
       /\ (hasApiUrl(store)
           => /\ Len(lastOp.events) = 2
              /\ Len(fetches) >= 1
              /\ fetches[Len(fetches)].key = lastOp.key
              /\ fetches[Len(fetches)].cb = lastOp.cb)

\* a subscriber of a table that holds records got them, its fetch in flight
C4_Witness ==
    /\ lastOp.op = "subscribe"
    /\ lastOp.key = KEYS.STUDENTS
    /\ Len(getData(store, KEYS.STUDENTS)) >= 1
    /\ lastOp.events[1].data = JArr(getData(store, KEYS.STUDENTS))
    /\ Len(fetches) >= 1

(* C5: when the fetch of a table subscription returns a non-empty array
   whose serialised form differs from the cached string, the cache becomes
   that array and the subscriber is invoked once more, with that array. *)
C5_RemoteSnapshotTaken ==
    (/\ lastOp.op = "createSubscriber.then"
     /\ lastOp.resp.t = "arr"
     /\ Len(lastOp.resp.a) > 0
     /\ Stringify(lastOp.resp) # lastOp.before)
    => /\ store[lastOp.key] = Stringify(lastOp.resp)
       /\ getData(store, lastOp.key) = lastOp.resp.a
       /\ Calls(lastOp.events) = <<CallEv(lastOp.key, lastOp.cb, lastOp.resp)>>
       /\ last[<<lastOp.key, lastOp.cb>>] = lastOp.resp

\* a remote snapshot replaced a cache that held other records
C5_Witness ==
    /\ lastOp.op = "createSubscriber.then"
    /\ lastOp.resp.t = "arr"
    /\ Len(BeforeList) >= 1
    /\ BeforeList # lastOp.resp.a
    /\ getData(store, lastOp.key) = lastOp.resp.a

(* C6: in the three reconciliation paths a fetch that fails or returns an
   empty array writes nothing to the local store and invokes no callback. *)
C6_EmptyOrFailedFetchChangesNothing ==
    [][(/\ lastOp'.op \in {"createSubscriber.then", "subscribeSettings.then",
                           "syncAllFromCloud"}
        /\ (lastOp'.resp.t = "fail" \/ lastOp'.resp = JArr(<<>>)))
       => /\ store' = store
          /\ last' = last
          /\ Writes(lastOp'.events) = <<>>
          /\ Calls(lastOp'.events) = <<>>]_vars

\* the full sync got an empty table from the remote while the local one held records
C6_Witness ==
    /\ lastOp.op = "syncAllFromCloud"
    /\ lastOp.resp = JArr(<<>>)
    /\ Len(BeforeList) >= 1
    /\ AfterList = BeforeList

(* C7: once no remote call is in flight, the value each registered
   callback was last invoked with is what the local store holds. *)
C7_SubscribersSeeLocalStore ==
    (fetches = <<>> /\ sends = <<>>)
    => \A key \in ListenerKeys : \A i \in 1..Len(listeners[key]) :
           last[<<key, listeners[key][i]>>] = LocalSnapshot(key)

(* C8: a save or delete writes the store, then invokes every registered
   callback in order with the new table, and only then starts the remote
   send, which is still in flight when the call returns. *)
C8_WriteAndNotifyBeforeSend ==
    lastOp.op \in {"saveItem", "deleteItem"}
    => LET n == Len(listeners[lastOp.key])
           new == JArr(getData(store, lastOp.key))
       IN  /\ Len(lastOp.events) = n + 2
           /\ lastOp.events[1] = SetItemEv(lastOp.key, new)
           /\ \A i \in 1..n :
                  lastOp.events[i + 1] = CallEv(lastOp.key, listeners[lastOp.key][i], new)
           /\ lastOp.events[n + 2].ev = "POST"
           /\ \A i \in 1..n : last[<<lastOp.key, listeners[lastOp.key][i]>>] = new
           /\ lastOp.ret = "pending"
           /\ Len(sends) >= 1
           /\ sends[Len(sends)].data = lastOp.events[n + 2].data.a[1]

\* a save changed a table two callbacks are registered on
C8_Witness ==
    /\ lastOp.op = "saveItem"
    /\ Len(listeners[lastOp.key]) = 2
    /\ AfterList # BeforeList

(* C9: the settlement of a remote send, resolved or failed, writes nothing
   to the local store, invokes no callback and never rejects the promise of
   the operation. *)
C9_SendOutcomeLeavesStore ==
    [][lastOp'.op = "apiRequest.settled"
       => /\ store' = store
          /\ last' = last
          /\ listeners' = listeners
          /\ Writes(lastOp'.events) = <<>>
          /\ lastOp'.ret # "rejected"]_vars

\* the remote delete of a record failed and the record is still gone
C9_Witness ==
    /\ lastOp.op = "apiRequest.settled"
    /\ lastOp.act = "delete"
    /\ lastOp.resp.t = "fail"
    /\ lastOp.item.id \notin IdsOf(getData(store, lastOp.key))
    /\ lastOp.ret = "resolved"

\* the ids of table key that a step removes
Removed(key) == IdsOf(getData(store, key)) \ IdsOf(getData(store', key))

(* C10 as claimed: an id leaves a record table only in a deleteItem run for
   that id. *)
C10_OnlyDeleteRemoves ==
    [][\A key \in RecordKeys : \A id \in Removed(key) :
           /\ lastOp'.op = "deleteItem"
           /\ lastOp'.key = key
           /\ lastOp'.item.id = id]_vars

(* C10 as amended: an id leaves a record table only in a deleteItem run for
   that id, or when a table subscription or the full sync replaces the table
   by a non-empty remote snapshot that does not hold the id. *)
C10_OnlyDeleteOrRemoteSnapshotRemoves ==
    [][\A key \in RecordKeys : \A id \in Removed(key) :
           \/ /\ lastOp'.op = "deleteItem"
              /\ lastOp'.key = key
              /\ lastOp'.item.id = id
           \/ /\ lastOp'.op \in {"createSubscriber.then", "syncAllFromCloud"}
              /\ lastOp'.key = key
              /\ lastOp'.resp.t = "arr"
              /\ Len(lastOp'.resp.a) > 0
              /\ id \notin IdsOf(lastOp'.resp.a)
              /\ getData(store', key) = lastOp'.resp.a]_vars

\* a remote snapshot replaced a table and a record of it is gone
C10_Witness ==
    /\ lastOp.op \in {"createSubscriber.then", "syncAllFromCloud"}
    /\ lastOp.key \in RecordKeys
    /\ \E id \in IdsOf(BeforeList) : id \notin IdsOf(AfterList)

(* C11: a save of the settings, whatever id its payload carries, leaves under
   the settings key one object: the fields of the payload with the id
   'global_settings'; so of two saves in sequence only the second is stored.
   The same object is what the update sent to the remote carries. *)
C11_SettingsSingleton ==
    lastOp.op = "saveSettings"
    => LET payload == Rec(GLOBAL_SETTINGS, lastOp.item.v)
           posts == SelectSeq(lastOp.events, LAMBDA e : e.ev = "POST")
       IN  /\ store[KEYS.SETTINGS] = Stringify(JObj(payload))
           /\ Parse(store[KEYS.SETTINGS]) = JObj(payload)
           /\ posts = <<PostEv("settings", "update", payload)>>
           /\ Len(sends) >= 1
           /\ sends[Len(sends)].data = payload
           /\ sends[Len(sends)].action = "update"

\* a second save, of a payload with an id of its own and other fields,
\* replaced the settings a first save had stored
C11_Witness ==
    /\ lastOp.op = "saveSettings"
    /\ lastOp.item.id = "x1"
    /\ lastOp.before = Stringify(JObj(Rec(GLOBAL_SETTINGS, "p1")))
    /\ store[KEYS.SETTINGS] = Stringify(JObj(Rec(GLOBAL_SETTINGS, "p2")))

(* C12: the string under the settings key is absent or one JSON object, and
   the string under each of the four record table keys is absent or a JSON
   array. *)
C12_ShapesOfStoredValues ==
    /\ (store[KEYS.SETTINGS] # <<>> => Parse(store[KEYS.SETTINGS]).t = "obj")
    /\ \A key \in RecordKeys : store[key] # <<>> => Parse(store[key]).t = "arr"

(* C13: a bulk import of N records writes the store once: the table it found,
   unchanged, followed by the N records in input order, their ids pairwise
   distinct and none of them an id the table already held; every callback
   registered on the table is invoked once for the whole batch. *)
C13_BulkAppendsFreshIds ==
    lastOp.op = "bulkImportStudents"
    => LET n == Len(lastOp.resp.a)
           m == Len(BeforeList)
           fresh == [i \in 1..n |-> AfterList[m + i]]
       IN  /\ Len(AfterList) = m + n
           /\ SubSeq(AfterList, 1, m) = BeforeList
           /\ \A i \in 1..n : fresh[i].v = BulkInput(n)[i].v /\ fresh[i].id # ""
           /\ UniqueIds(fresh)
           /\ IdsOf(fresh) \cap IdsOf(BeforeList) = {}
           /\ Writes(lastOp.events) = <<SetItemEv(KEYS.STUDENTS, JArr(AfterList))>>
           /\ Calls(lastOp.events) = notify(listeners, KEYS.STUDENTS, JArr(AfterList))

\* the POSTs among the events of a run
Posts(evs) == SelectSeq(evs, LAMBDA e : e.ev = "POST")

(* C14: a bulk import starts, after its write and its notifications, the
   create command of its first record only; the command of each next record
   is started in the run that resumes when the one before it has settled,
   resolved or failed, one record at a time and in input order, until none
   is left. *)
C14_BulkSendsOneAtATime ==
    [][/\ lastOp'.op = "bulkImportStudents"
          => LET prepared == lastOp'.resp.a
                 evs == lastOp'.events
             IN  IF prepared = <<>>
                 THEN Posts(evs) = <<>> /\ sends' = sends
                 ELSE /\ Posts(evs) = <<PostEv("students", "create", prepared[1])>>
                      /\ evs[Len(evs)].ev = "POST"
                      /\ evs[1].ev = "setItem"
                      /\ Len(sends') = Len(sends) + 1
                      /\ SubSeq(sends', 1, Len(sends)) = sends
                      /\ sends'[Len(sends')].action = "create"
                      /\ sends'[Len(sends')].data = prepared[1]
                      /\ sends'[Len(sends')].rest = Tail(prepared)
       /\ lastOp'.op = "apiRequest.settled"
          => \E n \in 1..Len(sends) :
                 LET s == sends[n]
                 IN  /\ s.data = lastOp'.item
                     /\ IF s.rest = <<>>
                        THEN /\ Posts(lastOp'.events) = <<>>
                             /\ sends' = Without(sends, n)
                        ELSE /\ Posts(lastOp'.events)
                                    = <<PostEv(s.table, "create", Head(s.rest))>>
                             /\ Len(sends') = Len(sends)
                             /\ SubSeq(sends', 1, Len(sends) - 1) = Without(sends, n)
                             /\ sends'[Len(sends')].action = "create"
                             /\ sends'[Len(sends')].data = Head(s.rest)
                             /\ sends'[Len(sends')].rest = Tail(s.rest)]_vars

\* the command of the first of two imported records failed, and the command
\* of the second was started
C14_Witness ==
    /\ lastOp.op = "apiRequest.settled"
    /\ lastOp.resp.t = "fail"
    /\ lastOp.act = "create"
    /\ Len(Posts(lastOp.events)) = 1
    /\ Len(getData(store, KEYS.STUDENTS)) >= 2
    /\ Posts(lastOp.events)[1].data.a[1] = getData(store, KEYS.STUDENTS)[2]

(* C15: the closure a subscribe call returned removes one registration, the
   one that call made: the list of the key loses at most one entry, the
   lists of the other keys stay as they are. *)
C15_UnsubscribeRemovesOneRegistration ==
    [][lastOp'.op = "unsubscribe"
       => /\ Len(listeners'[lastOp'.key]) >= Len(listeners[lastOp'.key]) - 1
          /\ \A key \in ListenerKeys \ {lastOp'.key} : listeners'[key] = listeners[key]]_vars

(* C16: a save, a delete and a bulk import each write the store once and
   then make one round of notifications: one invocation per registration on
   the table, in registration order, each with the whole new table, also
   when the table is what it was before. *)
C16_OneNotificationRoundPerWrite ==
    lastOp.op \in {"saveItem", "deleteItem", "bulkImportStudents"}
    => LET regs == listeners[lastOp.key]
           new == JArr(AfterList)
       IN  /\ Writes(lastOp.events) = <<SetItemEv(lastOp.key, new)>>
           /\ lastOp.events[1].ev = "setItem"
           /\ Calls(lastOp.events) = [i \in 1..Len(regs) |-> CallEv(lastOp.key, regs[i], new)]
           /\ \A i \in 1..Len(regs) : last[<<lastOp.key, regs[i]>>] = new

\* the delete of an id the table does not hold notified two callbacks, in
\* the order they registered
C16_Witness ==
    /\ lastOp.op = "deleteItem"
    /\ lastOp.item.id \notin IdsOf(BeforeList)
    /\ AfterList = BeforeList
    /\ Len(listeners[lastOp.key]) = 2
    /\ listeners[lastOp.key][1] # listeners[lastOp.key][2]
    /\ Len(Calls(lastOp.events)) = 2
    /\ Calls(lastOp.events)[1].cb = listeners[lastOp.key][1]

\* no remote endpoint is configured: the key of the endpoint is absent or
\* holds the empty string
NoEndpointConfigured == store[KEYS.API_URL] \in {<<>>, <<"">>}

(* C17: while no remote endpoint is configured, a save, a delete, a bulk
   import, a settings save and a subscribe work on the local store only:
   the run starts no network call, its promise is resolved when it returns,
   and a subscribe invokes its callback once. *)
C17_NoEndpointNoNetwork ==
    (/\ NoEndpointConfigured
     /\ lastOp.op \in {"saveItem", "deleteItem", "bulkImportStudents", "saveSettings",
                       "subscribe"})
    => /\ \A i \in 1..Len(lastOp.events) : lastOp.events[i].ev \notin {"POST", "GET"}
       /\ sends = <<>>
       /\ fetches = <<>>
       /\ lastOp.ret # "pending"

(* C18: the three session functions touch the session key only: every
   other key of the store, the registrations, the values delivered and the
   calls in flight stay as they are, and no callback is invoked.  setSession
   stores its argument, clearSession leaves the key absent, no other run
   changes the key, and getSession returns the stored record as it was
   passed in, or null when the key is absent. *)
C18_SessionTouchesOnlyItsKey ==
    [][/\ lastOp'.op \in {"getSession", "setSession", "clearSession"}
          => /\ \A key \in AllKeys \ {KEYS.SESSION} : store'[key] = store[key]
             /\ listeners' = listeners
             /\ last' = last
             /\ sends' = sends
             /\ fetches' = fetches
             /\ \A i \in 1..Len(lastOp'.events) :
                    /\ lastOp'.events[i].ev \in {"setItem", "removeItem"}
                    /\ lastOp'.events[i].key = KEYS.SESSION
       /\ lastOp'.op = "setSession"
          => /\ store'[KEYS.SESSION] = Stringify(JObj(lastOp'.item))
             /\ Parse(store'[KEYS.SESSION]) = JObj(lastOp'.item)
       /\ lastOp'.op = "clearSession" => store'[KEYS.SESSION] = <<>>
       /\ lastOp'.op \notin {"setSession", "clearSession"}
          => store'[KEYS.SESSION] = store[KEYS.SESSION]
       /\ lastOp'.op = "getSession"
          => IF store[KEYS.SESSION] = <<>>
             THEN lastOp'.resp = JNull
             ELSE \E user \in SessionInputs :
                      /\ store[KEYS.SESSION] = Stringify(JObj(user))
                      /\ lastOp'.resp = JObj(user)]_vars

\* getSession returned the identity setSession had stored, next to a table
\* that holds a record
C18_Witness ==
    /\ lastOp.op = "getSession"
    /\ lastOp.resp = JObj(Rec("admin-1", INITIAL_ADMIN))
    /\ Len(getData(store, KEYS.STUDENTS)) >= 1

(* C19: in the three consumers of a remote read, an outcome that is not a
   JSON array (the transport or the parsing of the body failed, or the body
   is an object or a string) writes nothing to the local store, invokes no
   callback and raises no error. *)
C19_NonArrayReadIsNoData ==
    (/\ lastOp.op \in {"createSubscriber.then", "subscribeSettings.then", "syncAllFromCloud"}
     /\ lastOp.resp.t # "arr")
    => /\ Writes(lastOp.events) = <<>>
       /\ Calls(lastOp.events) = <<>>
       /\ store[lastOp.key] = lastOp.before
       /\ lastOp.ret # "rejected"

(* C20: getData gives the empty list both for an absent key and for a stored
   string that cannot be parsed: a save, a delete, a bulk import, the seeding
   of the admin and a subscribe that find such a key neither reject nor
   throw, and a delete then leaves the empty table. *)
C20_GetDataNeverThrows ==
    (/\ lastOp.op \in {"saveItem", "deleteItem", "bulkImportStudents", "initAdminUser",
                       "subscribe"}
     /\ (lastOp.before = <<>> \/ ~WellFormed(lastOp.before)))
    => /\ lastOp.ret \notin {"rejected", "threw"}
       /\ (lastOp.op = "deleteItem" => store[lastOp.key] = Stringify(JArr(<<>>)))

(* C21: when the fetch of a table subscription resolves with a non-empty
   array that differs from the cache as it is at that moment, the table
   becomes that array and nothing else: every record the cache held that the
   array does not hold is gone, whatever local writes put it there, and the
   sends still in flight stay in flight. *)
C21_LastFetchWins ==
    [][(/\ lastOp'.op = "createSubscriber.then"
        /\ lastOp'.resp.t = "arr"
        /\ Len(lastOp'.resp.a) > 0
        /\ Stringify(lastOp'.resp) # store[lastOp'.key])
       => /\ store'[lastOp'.key] = Stringify(lastOp'.resp)
          /\ \A i \in 1..Len(getData(store, lastOp'.key)) :
                 LET r == getData(store, lastOp'.key)[i]
                 IN  (\A j \in 1..Len(lastOp'.resp.a) : lastOp'.resp.a[j] # r)
                     => \A j \in 1..Len(getData(store', lastOp'.key)) :
                            getData(store', lastOp'.key)[j] # r
          /\ sends' = sends]_vars

\* a record saved after the subscribe, its send still in flight, is gone
\* from the table: the snapshot of the subscription replaced it
C21_Witness ==
    /\ lastOp.op = "createSubscriber.then"
    /\ lastOp.resp.t = "arr"
    /\ AfterList = lastOp.resp.a
    /\ \E n \in 1..Len(sends) :
           /\ sends[n].action = "create"
           /\ sends[n].table = tableName(lastOp.key)
           /\ \E i \in 1..Len(BeforeList) : BeforeList[i] = sends[n].data
           /\ \A i \in 1..Len(AfterList) : AfterList[i] # sends[n].data

(* C22: a save forwards one command with the one record it wrote: 'update'
   when the id of the item was in the table the save found, 'create'
   otherwise; an item whose id is not in the table is appended as it is, its
   id kept.  A delete forwards one 'delete' command that carries the id
   only. *)
C22_ForwardedCommand ==
    /\ lastOp.op = "saveItem"
       => LET item == lastOp.item
              found == item.id # "" /\ item.id \in IdsOf(BeforeList)
              posts == Posts(lastOp.events)
          IN  /\ Len(posts) = 1
              /\ posts[1].key = tableName(lastOp.key)
              /\ posts[1].act = (IF found THEN "update" ELSE "create")
              /\ lastOp.act = posts[1].act
              /\ sends[Len(sends)].action = posts[1].act
              /\ sends[Len(sends)].data = posts[1].data.a[1]
              /\ (item.id # "" => posts[1].data = JObj(item))
              /\ (item.id = ""
                  => /\ posts[1].data.a[1] = AfterList[Len(AfterList)]
                     /\ posts[1].data.a[1].v = item.v
                     /\ posts[1].data.a[1].id # "")
              /\ (item.id # "" /\ ~found => AfterList = Append(BeforeList, item))
    /\ lastOp.op = "deleteItem"
       => /\ Posts(lastOp.events)
               = <<PostEv(tableName(lastOp.key), "delete", Rec(lastOp.item.id, ""))>>
          /\ sends[Len(sends)].action = "delete"
          /\ sends[Len(sends)].data = Rec(lastOp.item.id, "")

\* an item with an id the table does not hold was appended after the
\* records of the table and forwarded as a create
C22_Witness ==
    /\ lastOp.op = "saveItem"
    /\ lastOp.item.id = "x1"
    /\ Len(BeforeList) >= 1
    /\ "x1" \notin IdsOf(BeforeList)
    /\ AfterList = Append(BeforeList, lastOp.item)
    /\ Posts(lastOp.events)[1].act = "create"

(* C23: the fetch of a subscription, of a record table or of the settings,
   writes the local store or invokes the callback again only when it
   returned a non-empty array and what it stores differs from the string the
   cache held: a snapshot equal to the cache causes no write and no
   invocation. *)
C23_SnapshotTakenOnlyIfDifferent ==
    (/\ lastOp.op \in {"createSubscriber.then", "subscribeSettings.then"}
     /\ (Writes(lastOp.events) # <<>> \/ Calls(lastOp.events) # <<>>))
    => /\ lastOp.resp.t = "arr"
       /\ Len(lastOp.resp.a) > 0
       /\ store[lastOp.key] # lastOp.before

\* the GETs among the events of a run
Gets(evs) == SelectSeq(evs, LAMBDA e : e.ev = "GET")

(* C24: a save, a delete and a settings save each start one send and no
   fetch; a subscribe starts one fetch and no send.  The settlement of a
   send, resolved or failed, never starts that command again, and the
   resolution of a fetch, failed or not, starts no send and fetches the same
   table no second time: a send is only ever started by a call of the UI or
   by the loop of a bulk import, a fetch by a subscribe or by the full
   sync. *)
C24_OneAttemptNoRetry ==
    [][/\ lastOp'.op \in {"saveItem", "deleteItem", "saveSettings"}
          => /\ Len(Posts(lastOp'.events)) = 1
             /\ Gets(lastOp'.events) = <<>>
             /\ Len(sends') = Len(sends) + 1
             /\ fetches' = fetches
       /\ lastOp'.op = "subscribe"
          => /\ Len(Gets(lastOp'.events)) = 1
             /\ Posts(lastOp'.events) = <<>>
             /\ Len(fetches') = Len(fetches) + 1
             /\ sends' = sends
       /\ lastOp'.op = "apiRequest.settled"
          => /\ \A i \in 1..Len(lastOp'.events) :
                    lastOp'.events[i].ev = "POST"
                    => lastOp'.events[i].data # JObj(lastOp'.item)
             /\ Gets(lastOp'.events) = <<>>
             /\ Len(sends') <= Len(sends)
             /\ fetches' = fetches
       /\ lastOp'.op \in {"createSubscriber.then", "subscribeSettings.then"}
          => /\ Posts(lastOp'.events) = <<>>
             /\ Gets(lastOp'.events) = <<>>
             /\ Len(fetches') = Len(fetches) - 1
             /\ sends' = sends
       /\ lastOp'.op = "syncAllFromCloud"
          => /\ Posts(lastOp'.events) = <<>>
             /\ \A i \in 1..Len(lastOp'.events) :
                    lastOp'.events[i].ev = "GET"
                    => lastOp'.events[i].key # tableName(lastOp'.key)
             /\ Len(fetches') <= Len(fetches)
             /\ sends' = sends
       /\ Len(sends') > Len(sends)
          => lastOp'.op \in {"saveItem", "deleteItem", "saveSettings", "initAdminUser",
                             "bulkImportStudents"}
       /\ Len(fetches') > Len(fetches) => lastOp'.op \in {"subscribe", "setApiUrl"}]_vars

\* the send of a save failed and the fetch of a subscription failed: no
\* call is in flight any more
C24_Witness ==
    /\ lastOp.op = "apiRequest.settled"
    /\ lastOp.resp.t = "fail"
    /\ lastOp.act \in {"create", "update"}
    /\ lastOp.events = <<ErrorEv(tableName(lastOp.key))>>
    /\ Len(listeners[lastOp.key]) >= 1
    /\ sends = <<>>
    /\ fetches = <<>>

(* C25: a save, a delete, a bulk import and the seeding of the admin write
   the key of their table only: every other table, the session and the
   endpoint stay as they are; they invoke callbacks registered for that key
   only, so what the callbacks of the other keys last got stays as it is,
   and they change no registration. *)
C25_WriteStaysInItsTable ==
    [][lastOp'.op \in {"saveItem", "deleteItem", "bulkImportStudents", "initAdminUser"}
       => /\ \A key \in AllKeys \ {lastOp'.key} : store'[key] = store[key]
          /\ \A i \in 1..Len(lastOp'.events) :
                 lastOp'.events[i].ev \in {"setItem", "call"}
                 => lastOp'.events[i].key = lastOp'.key
          /\ \A q \in ListenerKeys \X Callbacks : q[1] # lastOp'.key => last'[q] = last[q]
          /\ listeners' = listeners]_vars

\* a save changed the students and notified their subscriber, while the
\* subscriber of the settings keeps the default settings it got
C25_Witness ==
    /\ lastOp.op = "saveItem"
    /\ lastOp.key = KEYS.STUDENTS
    /\ AfterList # BeforeList
    /\ Len(Calls(lastOp.events)) >= 1
    /\ Len(listeners[KEYS.SETTINGS]) >= 1
    /\ last[<<KEYS.SETTINGS, listeners[KEYS.SETTINGS][1]>>] = JObj(Rec("", DEFAULT_CERT_BG))

(* C26: a callback is invoked for a key only while it is registered for that
   key: once the closure its subscribe call returned has run, neither a
   local write nor the resolution of the fetch that subscribe call started
   invokes it. *)
C26_NoCallAfterUnsubscribe ==
    [][\A i \in 1..Len(lastOp'.events) :
           lastOp'.events[i].ev = "call"
           => \E j \in 1..Len(listeners'[lastOp'.events[i].key]) :
                  listeners'[lastOp'.events[i].key][j] = lastOp'.events[i].cb]_vars

(* C27: the endpoint in effect is never empty: it is the url setApiUrl
   stored when that is not empty, the built-in default otherwise, also after
   setApiUrl('').  So every save, delete and settings save and every bulk
   import of at least one record starts a POST, and every subscribe starts a
   GET, to the endpoint in effect. *)
C27_EndpointNeverEmpty ==
    /\ hasApiUrl(store)
    /\ getApiUrl(store) \in {DEFAULT_API_URL} \cup (Urls \ {""})
    /\ (store[KEYS.API_URL] \in {<<>>, <<"">>} => getApiUrl(store) = DEFAULT_API_URL)
    /\ (lastOp.op = "setApiUrl"
        => /\ store[KEYS.API_URL] = <<lastOp.resp.s>>
           /\ getApiUrl(store)
                  = (IF lastOp.resp.s # "" THEN lastOp.resp.s ELSE DEFAULT_API_URL))
    /\ \A n \in 1..Len(sends) : sends[n].url # ""
    /\ \A n \in 1..Len(fetches) : fetches[n].url # ""
    /\ ((\/ lastOp.op \in {"saveItem", "deleteItem", "saveSettings"}
         \/ lastOp.op = "bulkImportStudents" /\ Len(lastOp.resp.a) >= 1)
        => /\ Len(Posts(lastOp.events)) = 1
           /\ lastOp.ret = "pending"
           /\ Len(sends) >= 1
           /\ sends[Len(sends)].url = getApiUrl(store))
    /\ (lastOp.op = "subscribe"
        => /\ Len(Gets(lastOp.events)) = 1
           /\ Len(fetches) >= 1
           /\ fetches[Len(fetches)].url = getApiUrl(store))

\* after setApiUrl('') a save sent its record to the built-in default url
C27_Witness ==
    /\ store[KEYS.API_URL] = <<"">>
    /\ lastOp.op = "saveItem"
    /\ Len(Posts(lastOp.events)) = 1
    /\ sends[Len(sends)].url = DEFAULT_API_URL

====
